---- MODULE Spec2Model ----
(***************************************************************************)
(* Model of app.py, the Streamlit member/card linker.                      *)
(*                                                                         *)
(* Text is modelled as a sequence of one-character strings, so that        *)
(* str.strip(), str.lower(), the substring test `in`, the CSV writer's     *)
(* quoting and the CSV reader's missing-value detection are computed on    *)
(* characters the way the code and its libraries compute them.             *)
(*                                                                         *)
(* The script is re-run from its first line on every operator event; one   *)
(* run is one action, except a run that calls scan_card(), whose position  *)
(* inside the serial access is kept in pc.                                 *)
(***************************************************************************)
EXTENDS Integers, Naturals, Sequences, FiniteSets, TLC

(***************************************************************************)
(* Bounds of the model.                                                    *)
(***************************************************************************)
MaxRows == 3
MaxPorts == 2

(***************************************************************************)
(* Program constants.                                                      *)
(***************************************************************************)
COL_VORNAME == <<"V", "o", "r", "n", "a", "m", "e">>
COL_NACHNAME == <<"N", "a", "c", "h", "n", "a", "m", "e">>
COL_EMAIL == <<"E", "-", "M", "a", "i", "l">>
COL_TRANSPONDER == <<"T", "r", "a", "n", "s", "p", "o", "n", "d", "e", "r">>
COL_NAME == <<"N", "a", "m", "e">>
SEP == ";"
QUOTECHAR == "\""
KW_EASYIDENT == <<"e", "a", "s", "y", "i", "d", "e", "n", "t">>
KW_FS2044 == <<"f", "s", "-", "2", "0", "4", "4">>
KW_USBSERIAL == <<"u", "s", "b", " ", "s", "e", "r", "i", "a", "l">>
KW_TTYUSB == <<"t", "t", "y", "u", "s", "b">>
POSIX_DEFAULT == <<"/", "d", "e", "v", "/", "t", "t", "y", "U", "S", "B", "0">>
WINDOWS_DEFAULT == <<"C", "O", "M", "6">>

\* pandas' default set of strings that read_csv takes for a missing value
STR_NA_VALUES ==
    { <<>>,
      <<"#", "N", "/", "A">>,
      <<"#", "N", "/", "A", " ", "N", "/", "A">>,
      <<"#", "N", "A">>,
      <<"-", "1", ".", "#", "I", "N", "D">>,
      <<"-", "1", ".", "#", "Q", "N", "A", "N">>,
      <<"-", "N", "a", "N">>,
      <<"-", "n", "a", "n">>,
      <<"1", ".", "#", "I", "N", "D">>,
      <<"1", ".", "#", "Q", "N", "A", "N">>,
      <<"<", "N", "A", ">">>,
      <<"N", "/", "A">>,
      <<"N", "A">>,
      <<"N", "U", "L", "L">>,
      <<"N", "a", "N">>,
      <<"N", "o", "n", "e">>,
      <<"n", "/", "a">>,
      <<"n", "a", "n">>,
      <<"n", "u", "l", "l">> }

(***************************************************************************)
(* str methods.                                                            *)
(***************************************************************************)
WhiteSpace == {" ", "\t", "\n", "\r"}

UpperChars ==
    <<"A", "B", "C", "D", "E", "F", "G", "H", "I", "J", "K", "L", "M",
      "N", "O", "P", "Q", "R", "S", "T", "U", "V", "W", "X", "Y", "Z">>

LowerChars ==
    <<"a", "b", "c", "d", "e", "f", "g", "h", "i", "j", "k", "l", "m",
      "n", "o", "p", "q", "r", "s", "t", "u", "v", "w", "x", "y", "z">>

SetMin(S) == CHOOSE x \in S : \A y \in S : x <= y

SetMax(S) == CHOOSE x \in S : \A y \in S : x >= y

\* one character of str.lower()
LowerChar(c) ==
    IF \E i \in 1..Len(UpperChars) : UpperChars[i] = c
    THEN LowerChars[CHOOSE i \in 1..Len(UpperChars) : UpperChars[i] = c]
    ELSE c

\* str.lower()
Lower(s) == [i \in 1..Len(s) |-> LowerChar(s[i])]

\* str.strip()
Strip(s) ==
    LET keep == {i \in 1..Len(s) : s[i] \notin WhiteSpace}
    IN  IF keep = {} THEN <<>> ELSE SubSeq(s, SetMin(keep), SetMax(keep))

\* needle in s
Contains(needle, s) ==
    \E i \in 1..(Len(s) - Len(needle) + 1) :
        SubSeq(s, i, i + Len(needle) - 1) = needle

\* (x or ''), x an optional string: <<>> is None, <<s>> is the string s
OrEmpty(x) == IF x = <<>> THEN <<>> ELSE x[1]

(***************************************************************************)
(* The CSV writer (DataFrame.to_csv, sep=';', index=False) and the CSV     *)
(* reader (pandas.read_csv, sep=';', dtype=str).  A file is the sequence   *)
(* of its lines, a line the sequence of its characters.                    *)
(***************************************************************************)
RECURSIVE Join(_, _)
Join(parts, sep) ==
    IF Len(parts) = 0 THEN <<>>
    ELSE IF Len(parts) = 1 THEN parts[1]
    ELSE parts[1] \o <<sep>> \o Join(Tail(parts), sep)

RECURSIVE DoubleQuotes(_)
DoubleQuotes(f) ==
    IF Len(f) = 0 THEN <<>>
    ELSE (IF Head(f) = QUOTECHAR THEN <<QUOTECHAR, QUOTECHAR>> ELSE <<Head(f)>>)
         \o DoubleQuotes(Tail(f))

\* QUOTE_MINIMAL: a field is quoted when it holds the delimiter, the quote
\* character or a line terminator
NeedsQuote(f) == \E i \in 1..Len(f) : f[i] \in {SEP, QUOTECHAR, "\n", "\r"}

FormatField(f) ==
    IF NeedsQuote(f) THEN <<QUOTECHAR>> \o DoubleQuotes(f) \o <<QUOTECHAR>> ELSE f

\* a record of one empty field is written as "" to tell it from a blank line
FormatLine(fields) ==
    IF Len(fields) = 1 /\ fields[1] = <<>> THEN <<QUOTECHAR, QUOTECHAR>>
    ELSE Join([i \in 1..Len(fields) |-> FormatField(fields[i])], SEP)

\* the reader's tokenizer on one line: i is the position, cur the field being
\* read, inq whether the position is inside quotes, acc the fields read so far
RECURSIVE Tokenize(_, _, _, _, _)
Tokenize(line, i, cur, inq, acc) ==
    IF i > Len(line) THEN Append(acc, cur)
    ELSE LET c == line[i] IN
         IF inq
         THEN IF c = QUOTECHAR
              THEN IF i < Len(line) /\ line[i + 1] = QUOTECHAR
                   THEN Tokenize(line, i + 2, Append(cur, QUOTECHAR), TRUE, acc)
                   ELSE Tokenize(line, i + 1, cur, FALSE, acc)
              ELSE Tokenize(line, i + 1, Append(cur, c), TRUE, acc)
         ELSE IF c = SEP
              THEN Tokenize(line, i + 1, <<>>, FALSE, Append(acc, cur))
              ELSE IF c = QUOTECHAR /\ cur = <<>>
                   THEN Tokenize(line, i + 1, cur, TRUE, acc)
                   ELSE Tokenize(line, i + 1, Append(cur, c), FALSE, acc)

ParseLine(line) == Tokenize(line, 1, <<>>, FALSE, <<>>)

\* a cell that reads as missing becomes NaN, and .fillna('') makes it ''
FillNa(cell) == IF cell \in STR_NA_VALUES THEN <<>> ELSE cell

\* a short record is padded with missing cells
PadRow(fields, n) ==
    [j \in 1..n |-> IF j <= Len(fields) THEN FillNa(fields[j]) ELSE <<>>]

\* pd.read_csv(CSV_FILENAME, sep=';', dtype=str).fillna(''); blank lines
\* are skipped
read_csv(lines) ==
    LET header == ParseLine(lines[1])
        body == SelectSeq(Tail(lines), LAMBDA l : l # <<>>)
    IN  [columns |-> header,
         rows |-> [r \in 1..Len(body) |-> PadRow(ParseLine(body[r]), Len(header))]]

\* df.to_csv(CSV_FILENAME, sep=';', index=False)
to_csv(d) ==
    <<FormatLine(d.columns)>> \o [r \in 1..Len(d.rows) |-> FormatLine(d.rows[r])]

(***************************************************************************)
(* The data frame: columns is the sequence of column names, rows the       *)
(* sequence of rows, a row the sequence of its cells in column order.      *)
(***************************************************************************)
HasColumn(d, col) == \E i \in 1..Len(d.columns) : d.columns[i] = col

ColIndex(d, col) == CHOOSE i \in 1..Len(d.columns) : d.columns[i] = col

Cell(d, r, col) == d.rows[r][ColIndex(d, col)]

\* df[col] = values: the column is overwritten in place when it exists and
\* appended as the last column when it does not
SetColumn(d, col, values) ==
    IF HasColumn(d, col)
    THEN [d EXCEPT !.rows = [r \in 1..Len(d.rows) |->
                                [d.rows[r] EXCEPT ![ColIndex(d, col)] = values[r]]]]
    ELSE [columns |-> Append(d.columns, col),
          rows |-> [r \in 1..Len(d.rows) |-> Append(d.rows[r], values[r])]]

\* df['Vorname'].str.strip() + ' ' + df['Nachname'].str.strip()
DisplayName(d, r) ==
    Strip(Cell(d, r, COL_VORNAME)) \o <<" ">> \o Strip(Cell(d, r, COL_NACHNAME))

EnsureTransponder(d) ==
    IF HasColumn(d, COL_TRANSPONDER) THEN d
    ELSE SetColumn(d, COL_TRANSPONDER, [r \in 1..Len(d.rows) |-> <<>>])

\* section 7 of the script, after the existence test
load(lines) ==
    LET d == EnsureTransponder(read_csv(lines))
    IN  SetColumn(d, COL_NAME, [r \in 1..Len(d.rows) |-> DisplayName(d, r)])

\* df['Name'].tolist()
all_names(d) == [r \in 1..Len(d.rows) |-> Cell(d, r, COL_NAME)]

\* df.loc[df['Name'] == name, 'Transponder'] = uid
SetTransponder(d, name, uid) ==
    [d EXCEPT !.rows = [r \in 1..Len(d.rows) |->
        IF Cell(d, r, COL_NAME) = name
        THEN [d.rows[r] EXCEPT ![ColIndex(d, COL_TRANSPONDER)] = uid]
        ELSE d.rows[r]]]

\* the comparison without .lower() on the member's E-Mail
EmailMatchesCaseSensitive(d, name, email) ==
    LET member == {r \in 1..Len(d.rows) : Cell(d, r, COL_NAME) = name}
    IN  /\ member # {}
        /\ Strip(IF HasColumn(d, COL_EMAIL)
                 THEN Cell(d, SetMin(member), COL_EMAIL)
                 ELSE <<>>) = email

\* the comparison of the email handler: the first row of df[df['Name'] == name]
EmailMatches(d, name, email) ==
    LET member == {r \in 1..Len(d.rows) : Cell(d, r, COL_NAME) = name}
    IN  /\ member # {}
        /\ Lower(Strip(IF HasColumn(d, COL_EMAIL)
                       THEN Cell(d, SetMin(member), COL_EMAIL)
                       ELSE <<>>)) = email

(***************************************************************************)
(* find_reader_port.  A port is [device, description, hwid]; description   *)
(* and hwid are optional strings.                                          *)
(***************************************************************************)
PortMatches(p) ==
    LET desc == Lower(OrEmpty(p.description))
        hwid == Lower(OrEmpty(p.hwid))
    IN  \/ Contains(KW_EASYIDENT, desc)
        \/ Contains(KW_FS2044, desc)
        \/ Contains(KW_USBSERIAL, desc)
        \/ Contains(KW_TTYUSB, Lower(p.device))

find_reader_port(portList, osName) ==
    LET hits == {i \in 1..Len(portList) : PortMatches(portList[i])}
    IN  IF hits # {} THEN portList[SetMin(hits)].device
        ELSE IF osName = "posix" THEN POSIX_DEFAULT
        ELSE WINDOWS_DEFAULT

(***************************************************************************)
(* State.                                                                  *)
(***************************************************************************)
VARIABLES
    exists,             \* os.path.exists(CSV_FILENAME)
    csv,                \* the lines of members.csv
    ports,              \* serial.tools.list_ports.comports()
    os_name,            \* os.name
    SERIAL_PORT,        \* module variable SERIAL_PORT of the last run
    df,                 \* the data frame of the last run
    session_uid,        \* st.session_state.uid
    name_multiselect,   \* the multiselect's value: <<>> or <<name>>
    email_input,        \* the text of the email field
    uid_input,          \* the text of the UID field
    options,            \* the names the last run offered for selection
    stage,              \* how far the last run got: "start" before the first
                        \* run, then "nofile", "noname" or "form"
    msgs,               \* the st.info/st.success/st.error messages of the run
    button,             \* the st.button that was pressed for the last run:
                        \* "email", "scan", "save", or "none"
    pc,                 \* position of a run inside the scan handler or
                        \* the save handler; "idle" between runs
    ser_open,           \* the serial device is open
    exc,                \* an exception is propagating out of the with block
    raw,                \* the value scan_card returns
    verified,           \* history: outcome of the session's last email check
    last_scan,          \* history: outcome of the session's last scan
    lost,               \* history: another writer changed the file between
                        \* the load and the write of the last run
    opens,              \* history: the calls of serial.Serial(...) and
    reads               \* of ser.readline() since the last scan trigger

vars ==
    <<exists, csv, ports, os_name, SERIAL_PORT, df, session_uid,
      name_multiselect, email_input, uid_input, options, stage, msgs, button,
      pc, ser_open, exc, raw, verified, last_scan, lost, opens, reads>>

fileVars == <<exists, csv>>

hostVars == <<ports, os_name>>

serialVars == <<ser_open, exc, raw>>

histVars == <<verified, last_scan, opens, reads>>

(***************************************************************************)
(* Inputs of the bounded model.                                            *)
(***************************************************************************)
NoDf == [columns |-> <<>>, rows |-> <<>>]

\* the members, each as [Vorname, Nachname, E-Mail, Transponder]: the first
\* and the third have the same name once it is stripped
Roster ==
    << <<<<"A">>, <<"b">>, <<"A", "@", "x", " ">>, <<"1", "2">>>>,
       <<<<"N", "A">>, <<"d", ";">>, <<" ", "C", "@", "X", " ">>, <<"N", "A">>>>,
       <<<<" ", "A">>, <<"b", " ">>, <<"B", "@", "x">>, <<>>>> >>

\* the first n members
Members(n) == [r \in 1..n |-> Roster[((r - 1) % Len(Roster)) + 1]]

\* the three layouts of members.csv: with and without the Transponder
\* column, and with a Name column in front
Layout(rs, kind) ==
    IF kind = "plain"
    THEN [columns |-> <<COL_VORNAME, COL_NACHNAME, COL_EMAIL, COL_TRANSPONDER>>,
          rows |-> rs]
    ELSE IF kind = "unlinked"
    THEN [columns |-> <<COL_VORNAME, COL_NACHNAME, COL_EMAIL>>,
          rows |-> [r \in 1..Len(rs) |-> SubSeq(rs[r], 1, 3)]]
    ELSE [columns |-> <<COL_NAME>> \o
                      <<COL_VORNAME, COL_NACHNAME, COL_EMAIL, COL_TRANSPONDER>>,
          rows |-> [r \in 1..Len(rs) |-> <<<<"x">>>> \o rs[r]]]

\* the member files: MaxRows members in the plain layout, and the one-member
\* file in the other two
MemberFiles ==
    {to_csv(Layout(Members(MaxRows), "plain"))}
    \cup {to_csv(Layout(Members(1), k)) : k \in {"unlinked", "named"}}

\* what another program writes to members.csv
ExternalFiles == {to_csv(Layout(Members(1), "plain"))}

\* what the operator types into the email field
EmailTexts == { <<" ", "a", "@", "X", " ">> }

\* what the operator types into the UID field
UidTexts == { <<" ">>, <<" ", "N", "A", " ">> }

\* what the reader sends within the timeout: nothing, or bytes up to and
\* including the line feed; "0xFF" stands for a byte outside ASCII
SerialLines ==
    { <<>>,
      <<"\r", "\n">>,
      <<"0xFF", "1", "2", "\r", "\n">> }

NonAscii == {"0xFF"}

\* the ports a host can have
PortChoices ==
    [device : { <<"C", "O", "M", "3">>, <<"/", "d", "e", "v", "/", "T", "T", "Y", "U", "S", "B", "1">> },
     description : { <<>>, <<<<"E", "a", "s", "y", "I", "d", "e", "n", "t", " ", "F", "S", "-", "2", "0", "4", "4">>>>, <<<<"U", "S", "B", " ", "S", "e", "r", "i", "a", "l", " ", "P", "o", "r", "t">>>>, <<<<"B", "l", "u", "e", "t", "o", "o", "t", "h", " ", "L", "i", "n", "k">>>> },
     hwid : { <<>>, <<<<"F", "T", "D", "I", " ", "E", "A", "S", "Y", "I", "D", "E", "N", "T">>>> }]

PortLists == UNION {[1..n -> PortChoices] : n \in 0..MaxPorts}

\* the host of the session model: the reader on the first port
ReaderPort ==
    [device |-> <<"C", "O", "M", "3">>,
     description |-> <<<<"E", "a", "s", "y", "I", "d", "e", "n", "t", " ", "F", "S", "-", "2", "0", "4", "4">>>>,
     hwid |-> <<>>]

\* bytes.decode('ascii', errors='ignore')
decode(bytes) == SelectSeq(bytes, LAMBDA b : b \notin NonAscii)

(***************************************************************************)
(* One run of the script up to the handlers (sections 4 to 8).             *)
(***************************************************************************)
\* The multiselect keeps its value while the value is among the options it
\* is given; when the options differ from the ones it was last given it may
\* also come back empty.
SelChoices(sel, names) ==
    {IF sel # <<>> /\ (\E i \in 1..Len(names) : names[i] = sel[1])
     THEN sel ELSE <<>>}
    \cup (IF names # options THEN {<<>>} ELSE {})

\* A widget that a run does not reach loses its value: the email field comes
\* back empty and the UID field with its default, st.session_state.uid.
ResetForm ==
    /\ email_input' = <<>>
    /\ uid_input' = session_uid

\* section 7 creating an empty members file when there is none
StopNoFileCreates ==
    /\ stage' = "nofile"
    /\ msgs' = {"error_notfound"}
    /\ df' = NoDf
    /\ options' = <<>>
    /\ name_multiselect' = <<>>
    /\ ResetForm
    /\ exists' = TRUE
    /\ csv' = <<FormatLine(<<COL_VORNAME, COL_NACHNAME, COL_EMAIL>>)>>
    /\ UNCHANGED <<histVars, pc>>

\* st.stop() of section 7: the file is absent
StopNoFile ==
    /\ stage' = "nofile"
    /\ msgs' = {"error_notfound"}
    /\ df' = NoDf
    /\ options' = <<>>
    /\ name_multiselect' = <<>>
    /\ ResetForm
    /\ UNCHANGED <<fileVars, histVars, pc>>

\* section 8 without st.stop() ahead of the scan button: a run with no name
\* selected goes on to scan_card() when that button was pressed
StopNoNameScans(d) ==
    /\ stage' = "noname"
    /\ msgs' = {"info_select"}
    /\ df' = d
    /\ ResetForm
    /\ pc' = IF button' = "scan" THEN "opening" ELSE pc
    /\ UNCHANGED <<fileVars, histVars>>

\* st.stop() of section 8: no name is selected
StopNoName(d) ==
    /\ stage' = "noname"
    /\ msgs' = {"info_select"}
    /\ df' = d
    /\ ResetForm
    /\ UNCHANGED <<fileVars, histVars, pc>>

\* Sections 4 to 8 of a run, with sel, em and ui the values of the widgets
\* and b the pressed button; Handlers(d, name, em, ui) is what the run does
\* from section 9 on.
Run(sel, em, ui, b, Handlers(_, _, _, _)) ==
    /\ pc = "idle"
    /\ button' = b
    /\ SERIAL_PORT' = find_reader_port(ports, os_name)
    /\ lost' = FALSE
    /\ UNCHANGED <<hostVars, serialVars, session_uid>>
    /\ IF ~exists
       THEN StopNoFile
       ELSE \E d \in {load(csv)} :
            \E sl \in SelChoices(sel, all_names(d)) :
                /\ options' = all_names(d)
                /\ name_multiselect' = sl
                /\ IF sl = <<>>
                   THEN StopNoName(d)
                   ELSE /\ stage' = "form"
                        /\ email_input' = em
                        /\ uid_input' = ui
                        /\ Handlers(d, sl[1], em, ui)

(***************************************************************************)
(* The handlers (sections 9 to 12).                                        *)
(***************************************************************************)
\* no button was pressed
NoButton(d, name, em, ui) ==
    /\ df' = d
    /\ msgs' = {}
    /\ UNCHANGED <<fileVars, histVars, pc>>

\* section 9, "Email pruefen" pressed
EmailHandler(d, name, em, ui) ==
    /\ df' = d
    /\ IF EmailMatches(d, name, Lower(Strip(em)))
       THEN msgs' = {"email_ok"} /\ verified' = "ok"
       ELSE msgs' = {"email_error"} /\ verified' = "failed"
    /\ UNCHANGED <<fileVars, last_scan, opens, reads, pc>>

\* section 10, the scan button pressed: the run enters scan_card()
ScanEntry(d, name, em, ui) ==
    /\ df' = d
    /\ msgs' = {}
    /\ pc' = "opening"
    /\ last_scan' = "pending"
    /\ opens' = 0
    /\ reads' = 0
    /\ UNCHANGED <<fileVars, verified>>

\* section 12 testing the UID field's text before it is stripped
SaveHandlerNoStrip(d, name, em, ui) ==
    IF ui # <<>>
    THEN /\ df' = SetTransponder(d, name, Strip(ui))
         /\ msgs' = {}
         /\ pc' = "writing"
         /\ UNCHANGED <<fileVars, histVars>>
    ELSE /\ df' = d
         /\ msgs' = {"save_error"}
         /\ UNCHANGED <<fileVars, histVars, pc>>

\* section 12 saving only after a successful email check
SaveHandlerGated(d, name, em, ui) ==
    IF Strip(ui) # <<>> /\ verified = "ok"
    THEN /\ df' = SetTransponder(d, name, Strip(ui))
         /\ msgs' = {}
         /\ pc' = "writing"
         /\ UNCHANGED <<fileVars, histVars>>
    ELSE /\ df' = d
         /\ msgs' = {"save_error"}
         /\ UNCHANGED <<fileVars, histVars, pc>>

\* section 12 saving the scanned UID, st.session_state.uid, not the field
SaveHandlerSessionUid(d, name, em, ui) ==
    IF session_uid # <<>>
    THEN /\ df' = SetTransponder(d, name, session_uid)
         /\ msgs' = {}
         /\ pc' = "writing"
         /\ UNCHANGED <<fileVars, histVars>>
    ELSE /\ df' = d
         /\ msgs' = {"save_error"}
         /\ UNCHANGED <<fileVars, histVars, pc>>

\* section 12, the save button pressed: the frame loaded by this run is
\* updated (line 125) and the run is about to write it (line 126); with an
\* empty UID the run reports and ends
SaveHandler(d, name, em, ui) ==
    LET uid == Strip(ui) IN
    IF uid # <<>>
    THEN /\ df' = SetTransponder(d, name, uid)
         /\ msgs' = {}
         /\ pc' = "writing"
         /\ UNCHANGED <<fileVars, histVars>>
    ELSE /\ df' = d
         /\ msgs' = {"save_error"}
         /\ UNCHANGED <<fileVars, histVars, pc>>

(***************************************************************************)
(* Operator events.  The operator can only use a widget that the last run  *)
(* put on the page.                                                        *)
(***************************************************************************)
\* the first run of a session: no widget has a value yet
OpenPage ==
    /\ stage = "start"
    /\ Run(<<>>, <<>>, <<>>, "none", NoButton)

SelectName ==
    /\ stage \in {"noname", "form"}
    /\ \E i \in 1..Len(options) :
          Run(<<options[i]>>, email_input, uid_input, "none", NoButton)

ClearName ==
    /\ stage = "form"
    /\ Run(<<>>, email_input, uid_input, "none", NoButton)

TypeEmail ==
    /\ stage = "form"
    /\ \E e \in EmailTexts :
          Run(name_multiselect, e, uid_input, "none", NoButton)

TypeUid ==
    /\ stage = "form"
    /\ \E u \in UidTexts :
          Run(name_multiselect, email_input, u, "none", NoButton)

ClickEmail ==
    /\ stage = "form"
    /\ Run(name_multiselect, email_input, uid_input, "email", EmailHandler)

ClickScan ==
    /\ stage = "form"
    /\ Run(name_multiselect, email_input, uid_input, "scan", ScanEntry)

ClickSave ==
    /\ stage = "form"
    /\ Run(name_multiselect, email_input, uid_input, "save", SaveHandler)

(***************************************************************************)
(* scan_card() and the rest of the run that called it.                     *)
(***************************************************************************)
scanFrame ==
    <<fileVars, hostVars, SERIAL_PORT, df, name_multiselect, email_input,
      options, stage, button, verified, lost>>

\* serial.Serial(SERIAL_PORT, BAUD_RATE, timeout=2) opens the device
SerialOpenOk ==
    /\ pc = "opening"
    /\ ser_open' = TRUE
    /\ opens' = opens + 1
    /\ pc' = "reading"
    /\ UNCHANGED <<scanFrame, session_uid, uid_input, msgs, exc, raw, last_scan,
                   reads>>

\* serial.Serial(...) raises: the except clause reports and returns ''
SerialOpenFail ==
    /\ pc = "opening"
    /\ msgs' = msgs \cup {"scan_error"}
    /\ raw' = <<>>
    /\ pc' = "returned"
    /\ last_scan' = "open_failed"
    /\ opens' = opens + 1
    /\ UNCHANGED <<scanFrame, session_uid, uid_input, ser_open, exc, reads>>

\* ser.readline().decode('ascii', errors='ignore').strip(): the value of the
\* return statement, computed inside the with block
ReadLine ==
    /\ pc = "reading"
    /\ \E line \in SerialLines : raw' = Strip(decode(line))
    /\ exc' = FALSE
    /\ reads' = reads + 1
    /\ pc' = "exiting"
    /\ UNCHANGED <<scanFrame, session_uid, uid_input, msgs, ser_open, last_scan,
                   opens>>

\* ser.readline() raises
ReadError ==
    /\ pc = "reading"
    /\ exc' = TRUE
    /\ reads' = reads + 1
    /\ pc' = "exiting"
    /\ UNCHANGED <<scanFrame, session_uid, uid_input, msgs, ser_open, raw,
                   last_scan, opens>>

\* scan_card closing the device after the read only, without a with block
WithExitLeak ==
    /\ pc = "exiting"
    /\ ser_open' = exc
    /\ exc' = FALSE
    /\ IF exc
       THEN /\ msgs' = msgs \cup {"scan_error"}
            /\ raw' = <<>>
            /\ last_scan' = "read_failed"
       ELSE UNCHANGED <<msgs, raw, last_scan>>
    /\ pc' = "returned"
    /\ UNCHANGED <<scanFrame, session_uid, uid_input, opens, reads>>

\* the with block is left: Serial.__exit__ closes the device, then either
\* the value is returned or the except clause reports and returns ''
WithExit ==
    /\ pc = "exiting"
    /\ ser_open' = FALSE
    /\ exc' = FALSE
    /\ IF exc
       THEN /\ msgs' = msgs \cup {"scan_error"}
            /\ raw' = <<>>
            /\ last_scan' = "read_failed"
       ELSE UNCHANGED <<msgs, raw, last_scan>>
    /\ pc' = "returned"
    /\ UNCHANGED <<scanFrame, session_uid, uid_input, opens, reads>>

\* section 10 calling scan_card() once more when it returned '' (the second
\* call is the last)
ScanHandlerRetry ==
    /\ pc = "returned"
    /\ IF raw # <<>>
       THEN /\ session_uid' = raw
            /\ msgs' = msgs \cup {"scan_ok"}
            /\ uid_input' = IF raw # session_uid THEN raw ELSE uid_input
            /\ last_scan' = "ok"
            /\ pc' = "idle"
       ELSE /\ last_scan' = IF last_scan = "pending" THEN "empty" ELSE last_scan
            /\ pc' = IF opens < 2 THEN "opening" ELSE "idle"
            /\ UNCHANGED <<session_uid, msgs, uid_input>>
    /\ UNCHANGED <<scanFrame, serialVars, opens, reads>>

\* section 10 storing whatever scan_card() returned, '' included
ScanHandlerStoresEmpty ==
    /\ pc = "returned"
    /\ session_uid' = raw
    /\ uid_input' = IF raw # session_uid THEN raw ELSE uid_input
    /\ IF raw # <<>>
       THEN /\ msgs' = msgs \cup {"scan_ok"}
            /\ last_scan' = "ok"
       ELSE /\ last_scan' = IF last_scan = "pending" THEN "empty" ELSE last_scan
            /\ UNCHANGED msgs
    /\ pc' = "idle"
    /\ UNCHANGED <<scanFrame, serialVars, opens, reads>>

\* raw = scan_card() has returned: the rest of section 10, then the UID field
\* of section 11, which shows a changed default
ScanHandler ==
    /\ pc = "returned"
    /\ IF raw # <<>>
       THEN /\ session_uid' = raw
            /\ msgs' = msgs \cup {"scan_ok"}
            /\ uid_input' = IF raw # session_uid THEN raw ELSE uid_input
            /\ last_scan' = "ok"
       ELSE /\ last_scan' = IF last_scan = "pending" THEN "empty" ELSE last_scan
            /\ UNCHANGED <<session_uid, msgs, uid_input>>
    /\ pc' = "idle"
    /\ UNCHANGED <<scanFrame, serialVars, opens, reads>>

(***************************************************************************)
(* The rest of a run that saves.                                           *)
(***************************************************************************)
\* line 126 writing only a file that is as this run loaded it, and
\* reporting a conflict otherwise
WriteCsvChecked ==
    /\ pc = "writing"
    /\ IF lost
       THEN /\ msgs' = {"save_conflict"}
            /\ UNCHANGED fileVars
       ELSE /\ csv' = to_csv(df)
            /\ exists' = TRUE
            /\ msgs' = {"save_ok"}
    /\ pc' = "idle"
    /\ UNCHANGED <<hostVars, SERIAL_PORT, df, session_uid, name_multiselect,
                   email_input, uid_input, options, stage, button, serialVars,
                   histVars, lost>>

\* df.to_csv(CSV_FILENAME, sep=';', index=False) of line 126 creates or
\* overwrites the file, then line 127 reports
WriteCsv ==
    /\ pc = "writing"
    /\ csv' = to_csv(df)
    /\ exists' = TRUE
    /\ msgs' = {"save_ok"}
    /\ pc' = "idle"
    /\ UNCHANGED <<hostVars, SERIAL_PORT, df, session_uid, name_multiselect,
                   email_input, uid_input, options, stage, button, serialVars,
                   histVars, lost>>

(***************************************************************************)
(* The file's other writers, which can act at any time: between two runs,  *)
(* and between the load and the write of a run that saves.                 *)
(***************************************************************************)
envFrame ==
    <<hostVars, SERIAL_PORT, df, session_uid, name_multiselect, email_input,
      uid_input, options, stage, msgs, button, pc, serialVars, histVars>>

ExternalWrite ==
    /\ \E f \in ExternalFiles : csv' = f
    /\ exists' = TRUE
    /\ lost' = (lost \/ pc = "writing")
    /\ UNCHANGED envFrame

ExternalDelete ==
    /\ exists
    /\ exists' = FALSE
    /\ csv' = <<>>
    /\ lost' = (lost \/ pc = "writing")
    /\ UNCHANGED envFrame

(***************************************************************************)
(* The specifications.                                                     *)
(***************************************************************************)
\* a session that has not run the script yet
NewSession ==
    /\ SERIAL_PORT = <<>>
    /\ df = NoDf
    /\ session_uid = <<>>
    /\ name_multiselect = <<>>
    /\ email_input = <<>>
    /\ uid_input = <<>>
    /\ options = <<>>
    /\ stage = "start"
    /\ msgs = {}
    /\ button = "none"
    /\ pc = "idle"
    /\ ser_open = FALSE
    /\ exc = FALSE
    /\ raw = <<>>
    /\ verified = "never"
    /\ last_scan = "none"
    /\ lost = FALSE
    /\ opens = 0
    /\ reads = 0

Init ==
    /\ \/ exists = TRUE /\ csv \in MemberFiles
       \/ exists = FALSE /\ csv = <<>>
    /\ ports = <<ReaderPort>>
    /\ os_name = "posix"
    /\ NewSession

Next ==
    \/ OpenPage
    \/ SelectName
    \/ ClearName
    \/ TypeEmail
    \/ TypeUid
    \/ ClickEmail
    \/ ClickScan
    \/ ClickSave
    \/ SerialOpenOk
    \/ SerialOpenFail
    \/ ReadLine
    \/ ReadError
    \/ WithExit
    \/ ScanHandler
    \/ WriteCsv
    \/ ExternalWrite
    \/ ExternalDelete

Spec == Init /\ [][Next]_vars

\* the port resolver on every host of the bounds: the first run of a session
InitPorts ==
    /\ exists = FALSE
    /\ csv = <<>>
    /\ ports \in PortLists
    /\ os_name \in {"posix", "nt"}
    /\ NewSession

NextPorts == OpenPage

SpecPorts == InitPorts /\ [][NextPorts]_vars

(***************************************************************************)
(* Properties.                                                             *)
(***************************************************************************)
\* the header of the file and the text of column col in its record r, as the
\* tokenizer reads them
FileHeader(lines) == ParseLine(lines[1])

FileField(lines, r, col) ==
    ParseLine(lines[r + 1])[CHOOSE i \in 1..Len(FileHeader(lines)) :
                                FileHeader(lines)[i] = col]

\* the rows of table d whose Name is name
RowsNamed(d, name) == {r \in 1..Len(d.rows) : Cell(d, r, COL_NAME) = name}

\* the run that ends in the next state got past the name gate with uid as the
\* stripped text of the UID field
SaveReaches(uid) ==
    /\ button' = "save"
    /\ stage' = "form"
    /\ Strip(uid_input') = uid
    /\ ClickSave

\* the run that ends in the next state got to the write with uid
SaveProceeds(uid) ==
    /\ pc' = "writing"
    /\ df' = SetTransponder(load(csv), name_multiselect'[1], uid)

\* a step of a run that writes the file
SaveWrites ==
    /\ pc = "writing"
    /\ WriteCsv

\* the next state shows a commit of uid for the selected name: the success
\* message, and uid in the Transponder field of each of the name's records
Committed(uid) ==
    /\ msgs' = {"save_ok"}
    /\ exists'
    /\ RowsNamed(df', name_multiselect'[1]) # {}
    /\ \A r \in RowsNamed(df', name_multiselect'[1]) :
          FileField(csv', r, COL_TRANSPONDER) = uid

\* C1: after a save commits UID u for the selected name d, loading the file
\* again gives a table in which every row named d has Transponder = trim(u).
C1_ReloadShowsUid ==
    [][SaveWrites
        => \A r \in RowsNamed(load(csv'), name_multiselect'[1]) :
              Cell(load(csv'), r, COL_TRANSPONDER) = Strip(uid_input')]_vars

\* C2: a commit that leaves every row's UID as loaded writes a file with the
\* columns, in order, and the rows, in order, of the file that was loaded.
C2_RowOrder(lines) ==
    [r \in 1..Len(read_csv(lines).rows) |->
        <<Cell(read_csv(lines), r, COL_VORNAME),
          Cell(read_csv(lines), r, COL_NACHNAME),
          Cell(read_csv(lines), r, COL_EMAIL)>>]

C2_RoundTripKeepsColumns ==
    [][(/\ SaveWrites
        /\ exists
        /\ df = load(csv))
        => /\ FileHeader(csv') = FileHeader(csv)
           /\ C2_RowOrder(csv') = C2_RowOrder(csv)]_vars

\* C3: a save whose UID strips to the empty string writes nothing: the file
\* and the table as loaded are unchanged and the EmptyUID error is shown.
C3_EmptyUidNoWrite ==
    [][SaveReaches(<<>>)
        => /\ exists' = exists
           /\ csv' = csv
           /\ df' = load(csv)
           /\ msgs' = {"save_error"}]_vars

C3_Witness ==
    /\ msgs = {"save_error"}
    /\ uid_input = <<" ">>
    /\ stage = "form"

\* C4: whenever scan_card has returned, the serial device is closed.
C4_ClosedAfterReturn == pc \in {"returned", "idle"} => ~ser_open

C4_Witness ==
    /\ pc = "returned"
    /\ last_scan = "read_failed"
    /\ ~ser_open

\* C5: find_reader_port returns the device of the first port whose
\* description or hardware id contains a reader keyword or whose device
\* matches the USB-serial pattern, and the platform default only when no
\* port matches.
C5_PortNamesReader(p) ==
    \/ \E kw \in {KW_EASYIDENT, KW_FS2044, KW_USBSERIAL} :
          \/ Contains(kw, Lower(OrEmpty(p.description)))
          \/ Contains(kw, Lower(OrEmpty(p.hwid)))
    \/ Contains(KW_TTYUSB, Lower(p.device))

C5_FirstMatchingPort ==
    stage # "start" =>
        LET hits == {i \in 1..Len(ports) : C5_PortNamesReader(ports[i])}
        IN  SERIAL_PORT = IF hits # {} THEN ports[SetMin(hits)].device
                          ELSE IF os_name = "posix" THEN POSIX_DEFAULT
                          ELSE WINDOWS_DEFAULT

\* C6: every scan that fails, by the open failing, by the timeout or by an
\* empty line, shows an error message for the scan.
C6_FailedScanReported ==
    [][(pc = "returned" /\ raw = <<>> /\ ScanHandler)
        => "scan_error" \in msgs']_vars

\* C7: a save with a member selected and a non-empty UID commits, whatever
\* the outcome of the session's email check: none, failed or passed.
C7_SaveNotGated ==
    [][\A v \in {"never", "failed", "ok"} : \A u \in {Strip(uid_input')} :
          /\ (verified = v /\ u # <<>> /\ SaveReaches(u)) => SaveProceeds(u)
          /\ (verified = v /\ SaveWrites) => Committed(u)]_vars

C7_Witness ==
    /\ msgs = {"save_ok"}
    /\ verified = "failed"

\* C8: a scan whose open fails is reported and the run goes on to the UID
\* field; a later save of a typed, non-empty UID commits it.
C8_SaveAfterOpenFailure ==
    [][/\ (pc = "opening" /\ pc' # "opening" /\ ~ser_open')
          => (pc' = "returned" /\ "scan_error" \in msgs' /\ stage' = "form")
       /\ (pc = "returned" /\ last_scan = "open_failed" /\ ScanHandler)
          => (pc' = "idle" /\ stage' = "form" /\ uid_input' = uid_input)
       /\ \A u \in {Strip(uid_input')} :
             /\ (last_scan = "open_failed" /\ u # <<>> /\ SaveReaches(u))
                   => SaveProceeds(u)
             /\ (last_scan = "open_failed" /\ SaveWrites) => Committed(u)]_vars

C8_Witness ==
    /\ msgs = {"save_ok"}
    /\ last_scan = "open_failed"
    /\ uid_input \in UidTexts

\* C9: a run that finds the file absent shows the FileNotFound error and does
\* nothing else: no handler runs, the device stays closed, no file appears.
ScriptRun ==
    \/ OpenPage
    \/ SelectName
    \/ ClearName
    \/ TypeEmail
    \/ TypeUid
    \/ ClickEmail
    \/ ClickScan
    \/ ClickSave

C9_AbsentFileStopsRun ==
    [][(~exists /\ ScriptRun)
        => /\ msgs' = {"error_notfound"}
           /\ stage' = "nofile"
           /\ ~exists'
           /\ csv' = csv
           /\ pc' = "idle"
           /\ ~ser_open'
           /\ UNCHANGED <<session_uid, verified, last_scan>>]_vars

C9_Witness ==
    /\ stage = "nofile"
    /\ msgs = {"error_notfound"}
    /\ button = "save"

\* C10: the email check succeeds exactly when the selected member's E-Mail
\* and the candidate are equal up to case and surrounding whitespace, and it
\* changes neither the file, the table as loaded, nor the session UID.
C10_SameEmail(a, b) == Strip(Lower(a)) = Strip(Lower(b))

C10_EmailCheckPure ==
    [][(button' = "email" /\ stage' = "form" /\ ClickEmail)
        => /\ msgs' \in {{"email_ok"}, {"email_error"}}
           /\ (msgs' = {"email_ok"})
                 <=> C10_SameEmail(
                        Cell(df', SetMin(RowsNamed(df', name_multiselect'[1])),
                             COL_EMAIL),
                        email_input')
           /\ exists' = exists
           /\ csv' = csv
           /\ df' = load(csv)
           /\ session_uid' = session_uid]_vars

C10_Witness ==
    /\ msgs = {"email_ok"}
    /\ email_input \in EmailTexts

\* C11: a commit for the name d changes only the Transponder field of the
\* records named d: every other record keeps its Transponder field, every
\* other field of every record of the file is as it was, and the records are
\* in the same order.
C11_OtherColumns(lines) ==
    {FileHeader(lines)[i] : i \in 1..Len(FileHeader(lines))} \ {COL_TRANSPONDER}

C11_CommitChangesOnlyUid ==
    [][(/\ SaveWrites
        /\ exists
        /\ df = SetTransponder(load(csv), name_multiselect[1], Strip(uid_input)))
        => /\ Len(csv') = Len(csv)
           /\ \A r \in 1..(Len(csv) - 1) :
                 /\ \A col \in C11_OtherColumns(csv) :
                       FileField(csv', r, col) = FileField(csv, r, col)
                 /\ (/\ COL_TRANSPONDER \in
                           {FileHeader(csv)[i] : i \in 1..Len(FileHeader(csv))}
                     /\ r \notin RowsNamed(df', name_multiselect'[1]))
                       => FileField(csv', r, COL_TRANSPONDER)
                             = FileField(csv, r, COL_TRANSPONDER)]_vars

\* C12 as stated, with the table the session holds when save is pressed as
\* the table as loaded by the session: a save that goes on to write commits
\* that table with the name's Transponder set, whatever another writer has
\* done to the file since it was loaded.
C12_SessionTableWins ==
    [][(button' = "save" /\ pc' = "writing" /\ ClickSave)
        => df' = SetTransponder(df, name_multiselect'[1], Strip(uid_input'))]_vars

\* C12: the table a save commits is the one loaded by the run that handles
\* the save.  A change another writer makes after that load and before the
\* write does not reach the table, and the write then succeeds with no error:
\* the file holds the columns and the rows of that table, so the change is
\* lost.
C12_RunLoadWins ==
    [][/\ (button' = "save" /\ pc' = "writing" /\ ClickSave)
          => df' = SetTransponder(load(csv), name_multiselect'[1],
                                  Strip(uid_input'))
       /\ (pc = "writing" /\ pc' = "writing") => df' = df
       /\ SaveWrites
          => /\ exists'
             /\ msgs' = {"save_ok"}
             /\ df' = df
             /\ FileHeader(csv') = df.columns
             /\ Len(csv') = Len(df.rows) + 1
             /\ \A r \in 1..Len(df.rows) : ParseLine(csv'[r + 1]) = df.rows[r]]_vars

C12_Witness ==
    /\ lost
    /\ pc = "idle"
    /\ msgs = {"save_ok"}
    /\ FileHeader(csv) = df.columns

\* C13: a scan trigger opens the serial device at most once and reads at
\* most one line; scan_card is entered only by the operator's scan trigger,
\* and whatever it returns, also after a failed or timed-out read, the run
\* ends without entering it again.
C13_OneOpenOneRead ==
    [][/\ opens' <= 1
       /\ reads' <= 1
       /\ (pc' = "opening" /\ pc # "opening") => (button' = "scan" /\ ClickScan)
       /\ (pc' = "reading" /\ pc # "reading") => (pc = "opening" /\ SerialOpenOk)
       /\ (pc = "returned" /\ pc' # "returned") => (pc' = "idle" /\ ScanHandler)]_vars

C13_Witness ==
    /\ pc = "idle"
    /\ last_scan \in {"read_failed", "empty"}
    /\ opens = 1
    /\ reads = 1

\* C14: st.session_state.uid is empty before the first run and is changed
\* only by a scan that returned a non-empty line, which becomes its value;
\* every other step (an empty or failed scan, an email check, a save, another
\* selection) leaves it as it is, so once set it is never empty again.
C14_SessionUidFrame ==
    [][/\ (stage = "start") => (session_uid = <<>>)
       /\ (session_uid' # session_uid)
             => (pc = "returned" /\ raw # <<>> /\ ScanHandler)
       /\ (pc = "returned" /\ raw # <<>> /\ ScanHandler) => (session_uid' = raw)
       /\ (session_uid # <<>>) => (session_uid' # <<>>)]_vars

C14_Witness ==
    /\ session_uid # <<>>
    /\ last_scan = "empty"
    /\ verified = "failed"
    /\ msgs = {"save_ok"}
    /\ name_multiselect # <<>>

\* C15: the run is inside scan_card or the save handler, and the device is
\* open, only with exactly one name selected that is a Name of the loaded
\* table; a run that ends with no name selected has handled no email check,
\* no scan and no save, and has left the file alone.
C15_Selected ==
    /\ Len(name_multiselect') = 1
    /\ RowsNamed(df', name_multiselect'[1]) # {}

C15_NameGate ==
    [][/\ (pc' # "idle" \/ ser_open') => C15_Selected
       /\ (pc = "writing" /\ pc' = "idle") => C15_Selected
       /\ (pc = "idle" /\ name_multiselect' = <<>> /\ ScriptRun)
             => /\ pc' = "idle"
                /\ ~ser_open'
                /\ msgs' \in {{"info_select"}, {"error_notfound"}}
                /\ UNCHANGED <<fileVars, session_uid, verified, last_scan,
                               opens, reads>>]_vars

C15_Witness ==
    /\ button \in {"email", "scan", "save"}
    /\ stage = "noname"
    /\ msgs = {"info_select"}
    /\ name_multiselect = <<>>
    /\ pc = "idle"

====
